---- MODULE Spec2Model ----
(***************************************************************************)
(* Model of src/server.ts: a socket.io server that relays one WhatsApp     *)
(* (Baileys) connection per user to browser clients.                       *)
(*                                                                         *)
(* Node runs every handler to its next `await` without interruption, so    *)
(* an action of this model is one such run: the synchronous prefix of a    *)
(* handler, or the continuation that runs when an awaited promise settles. *)
(***************************************************************************)
EXTENDS Integers, Sequences, FiniteSets

\* ------------------------------------------------------ bounds and inputs

\* Calls of connectWhatsApp in one run of the model; the code counts
\* nothing, the events that call it are disabled once the bound is used up.
MaxAttempts == 2

\* Transport clients (socket.io ids) and the userIds they send.
Clients == {"c1", "c2"}
Users == {"u1", "u2"}
\* `auth` payload without a userId (undefined or the empty string).
NoUserId == ""
\* lastDisconnect.error.output.statusCode of a close event.
StatusCodes == {"loggedOut", "connectionClosed"}
\* new Map()
EmptyMap == [x \in {} |-> 0]

\* Chat ids are JIDs <user>@<server>; groups live on the server g.us.
Jid(user, server) == [user |-> user, server |-> server]
Group1 == Jid("1", "g.us")
Group2 == Jid("2", "g.us")
Private5 == Jid("5", "s.whatsapp.net")
\* Results of socket.groupFetchAllParticipating(): group id -> subject.
FetchResults ==
  { [g \in {Group1} |-> "a"],
    [g \in {Group1, Group2} |-> "b"] }

\* Snapshot files an earlier run of the server may have left behind.
StoreFiles ==
  { EmptyMap,
    [u \in {"u1"} |-> [id \in {Group1, Private5} |-> "old"]] }

NoSocket == 0
SocketIds == 1..MaxAttempts

\* ----------------------------------------------------------------- state

VARIABLES
  clients,          \* transport client -> "new" | "connected" | "disconnected"
  activeSockets,    \* Map userId -> [clientId, baileysInstance]
  userStores,       \* Map userId -> store.chats (chat id -> name)
  flushTimers,      \* userId -> number of setInterval flush timers
  authDir,          \* userId -> whether multi_auth_info_<userId> exists
  storeFile,        \* Map userId -> content of ./store_<userId>.json
  baileysInstance,  \* client -> the closure's baileysInstance (0: undefined)
  handlers,         \* client -> userIds of the disconnect/listGroups handlers
  tasks,            \* connectWhatsApp calls suspended at an await
  sockets,          \* Map socket id -> the WASocket made by makeWASocket
  fetching,         \* sockets awaiting groupFetchAllParticipating()
  nextId,           \* id of the next connectWhatsApp call
  lastEvent,        \* the handler run by the last step
  emitted           \* client.emit calls of the last step, in order

vars == << clients, activeSockets, userStores, flushTimers, authDir,
           storeFile, baileysInstance, handlers, tasks, sockets, fetching, nextId,
           lastEvent, emitted >>

\* ------------------------------------------------------------ Map helpers

MapHas(m, k) == k \in DOMAIN m
MapSet(m, k, v) == [x \in DOMAIN m \cup {k} |-> IF x = k THEN v ELSE m[x]]
\* Map.clear in place of Map.delete.
MapClear(m, k) == [x \in {} |-> m[x]]

MapDelete(m, k) == [x \in DOMAIN m \ {k} |-> m[x]]

\* client.emit(e, a) on client c's transport socket.
Emit(c, e, a) == [to |-> c, event |-> e, arg |-> a, groups |-> EmptyMap]
EmitGroups(c, gs) == [to |-> c, event |-> "groups", arg |-> "", groups |-> gs]
\* A handler run: the event, the client whose closure runs it, the userId and
\* socket it is about, and whether it ended in an uncaught exception
\* (a rejected promise nobody handles).
Event(op, c, u, id, a) ==
  [op |-> op, client |-> c, userId |-> u, id |-> id, arg |-> a,
   uncaught |-> FALSE]
Thrown(op, c, u, id, a) ==
  [op |-> op, client |-> c, userId |-> u, id |-> id, arg |-> a,
   uncaught |-> TRUE]

Init ==
  /\ clients = [c \in Clients |-> "new"]
  /\ activeSockets = EmptyMap
  /\ userStores = EmptyMap
  /\ flushTimers = [u \in Users |-> 0]
  /\ authDir = [u \in Users |-> FALSE]
  /\ storeFile \in StoreFiles
  /\ baileysInstance = [c \in Clients |-> NoSocket]
  /\ handlers = [c \in Clients |-> << >>]
  /\ tasks = {}
  /\ sockets = EmptyMap
  /\ fetching = {}
  /\ nextId = 1
  /\ lastEvent = Event("init", "", "", NoSocket, "")
  /\ emitted = << >>

\* io.on('connection'): a client whose id is a key of activeSockets gets no
\* handlers.
Connection(c) ==
  /\ clients[c] = "new"
  /\ clients' = [clients EXCEPT ![c] =
                   IF MapHas(activeSockets, c) THEN "ignored" ELSE "connected"]
  /\ lastEvent' = Event("connection", c, "", NoSocket, "")
  /\ emitted' = << >>
  /\ UNCHANGED << activeSockets, userStores, flushTimers, authDir, storeFile,
                  baileysInstance, handlers, tasks, sockets, fetching, nextId >>

\* ------------------------------------------------- connectWhatsApp, auth

Task(id, kind, c, userId, stage) ==
  [id |-> id, kind |-> kind, client |-> c, userId |-> userId, stage |-> stage]

\* makeWASocket(...) plus the connection.update listener of line 82; kind
\* tells which caller of connectWhatsApp made it ("auth" or "reconnect").
NewSocket(c, userId, kind) ==
  [userId |-> userId, client |-> c, kind |-> kind,
   connection |-> "connecting", listening |-> TRUE, upsertListeners |-> 0]

\* The check of line 156 left out.
MissingUserIdNever(userId) == FALSE

\* !userId (line 156): the payload has no userId, or an empty one.
MissingUserId(userId) == userId = NoUserId

\* activeSockets.get(userId), tested for truthiness (lines 161-162).
ExistingConnection(userId) == MapHas(activeSockets, userId)

\* client.on('auth') up to its first await: the two early returns, else the
\* call of connectWhatsApp, which suspends in useMultiFileAuthState.
Auth(c, userId) ==
  /\ clients[c] = "connected"
  /\ IF MissingUserId(userId)
       THEN /\ emitted' = << Emit(c, "error", "UserId nao fornecido.") >>
            /\ lastEvent' = Event("auth", c, userId, NoSocket, "missing")
            /\ UNCHANGED << tasks, nextId >>
     ELSE IF ExistingConnection(userId)
       THEN /\ emitted' = << Emit(c, "status", "already_connected") >>
            /\ lastEvent' = Event("auth", c, userId, NoSocket, "rejected")
            /\ UNCHANGED << tasks, nextId >>
     ELSE /\ nextId <= MaxAttempts
          /\ tasks' = tasks \cup {Task(nextId, "auth", c, userId, "creds")}
          /\ nextId' = nextId + 1
          /\ emitted' = << >>
          /\ lastEvent' = Event("auth", c, userId, nextId, "connecting")
  /\ UNCHANGED << clients, activeSockets, userStores, flushTimers, authDir,
                  storeFile, baileysInstance, handlers, sockets, fetching >>

\* useMultiFileAuthState resolves: the credential folder exists from now on;
\* connectWhatsApp suspends again in fetchLatestBaileysVersion.
ConnectCreds(id) ==
  \E t \in tasks :
  /\ t.id = id /\ t.stage = "creds"
  /\ authDir' = [authDir EXCEPT ![t.userId] = TRUE]
  /\ tasks' = (tasks \ {t}) \cup {[t EXCEPT !.stage = "version"]}
  /\ lastEvent' = Event("creds", t.client, t.userId, t.id, t.kind)
  /\ emitted' = << >>
  /\ UNCHANGED << clients, activeSockets, userStores, flushTimers, storeFile,
                  baileysInstance, handlers, sockets, fetching, nextId >>

\* Lines 178-216 of the auth handler, which run after the try/catch whether
\* or not connectWhatsApp succeeded: bi is the closure's baileysInstance
\* and socks the sockets at that point.  With baileysInstance undefined line
\* 178 throws and nothing is registered.
RegisterHandlers(c, userId, bi, socks) ==
  IF bi = NoSocket
    THEN /\ sockets' = socks
         /\ UNCHANGED handlers
    ELSE /\ sockets' = [socks EXCEPT ![bi].upsertListeners = @ + 1]
         /\ handlers' = [handlers EXCEPT ![c] = Append(@, userId)]

\* fetchLatestBaileysVersion resolves, makeWASocket returns the socket.  For
\* a call from the auth handler the handler's continuation runs in the same
\* turn (lines 170-216); the close handler drops the returned socket.
ConnectSocket(id) ==
  \E t \in tasks :
  /\ t.id = id /\ t.stage = "version"
  /\ tasks' = tasks \ {t}
  /\ emitted' = << >>
  /\ lastEvent' = Event("socket", t.client, t.userId, t.id, t.kind)
  /\ LET socks == MapSet(sockets, t.id, NewSocket(t.client, t.userId, t.kind)) IN
     IF t.kind = "auth"
       THEN /\ baileysInstance' = [baileysInstance EXCEPT ![t.client] = t.id]
            /\ activeSockets' =
                 MapSet(activeSockets, t.userId,
                        [clientId |-> t.client, baileysInstance |-> t.id])
            /\ RegisterHandlers(t.client, t.userId, t.id, socks)
       ELSE /\ sockets' = socks
            /\ UNCHANGED << baileysInstance, activeSockets, handlers >>
  /\ UNCHANGED << clients, userStores, flushTimers, authDir, storeFile,
                  fetching, nextId >>

\* The catch of lines 172-175 emitting nothing.
AuthCatchSilent(c) == << >>

\* The catch block of the auth handler, lines 172-175.
AuthCatch(c) == << Emit(c, "error", "Erro ao conectar ao WhatsApp.") >>

\* useMultiFileAuthState rejects or makeWASocket throws: connectWhatsApp
\* rethrows (line 146).  The auth handler catches, emits 'error' and goes on
\* to line 178; the close handler (line 103) does not catch.
ConnectFail(id) ==
  \E t \in tasks :
  /\ t.id = id
  /\ tasks' = tasks \ {t}
  /\ IF t.kind = "auth"
       THEN /\ emitted' = AuthCatch(t.client)
            /\ RegisterHandlers(t.client, t.userId, baileysInstance[t.client], sockets)
            /\ lastEvent' =
                 IF baileysInstance[t.client] = NoSocket
                   THEN Thrown("connectFail", t.client, t.userId, t.id, t.kind)
                   ELSE Event("connectFail", t.client, t.userId, t.id, t.kind)
       ELSE /\ emitted' = << >>
            /\ lastEvent' = Thrown("connectFail", t.client, t.userId, t.id, t.kind)
            /\ UNCHANGED << sockets, handlers >>
  /\ UNCHANGED << clients, activeSockets, userStores, flushTimers, authDir,
                  storeFile, baileysInstance, fetching, nextId >>

\* ------------------------------------------------------------ user stores

\* createUserStore without the has-check of lines 33-36: a new store and a
\* new timer on every call.
createUserStoreAlways(userId) ==
  [stores |-> MapSet(userStores, userId,
                     IF MapHas(storeFile, userId)
                       THEN storeFile[userId] ELSE EmptyMap),
   timers |-> [flushTimers EXCEPT ![userId] = @ + 1]]

\* createUserStore: the existing store, else a new one read from
\* ./store_<userId>.json with a 10 s flush timer.  Yields the two maps.
createUserStore(userId) ==
  IF MapHas(userStores, userId)
    THEN [stores |-> userStores, timers |-> flushTimers]
    ELSE [stores |-> MapSet(userStores, userId,
                            IF MapHas(storeFile, userId)
                              THEN storeFile[userId] ELSE EmptyMap),
          timers |-> [flushTimers EXCEPT ![userId] = @ + 1]]

\* The setInterval callback of lines 43-45: store.writeToFile(storeFilePath).
Flush(userId) ==
  /\ flushTimers[userId] > 0
  /\ storeFile' = MapSet(storeFile, userId, userStores[userId])
  /\ emitted' = << >>
  /\ lastEvent' = Event("flush", "", userId, NoSocket, "")
  /\ UNCHANGED << clients, activeSockets, userStores, flushTimers, authDir,
                  baileysInstance, handlers, tasks, sockets, fetching, nextId >>

\* The forEach of lines 131-136 without the get of line 132: every fetched
\* chat is inserted over the stored one.
InsertOverwrite(chats, fetched) ==
  [id \in DOMAIN chats \cup DOMAIN fetched |->
     IF id \in DOMAIN fetched THEN fetched[id] ELSE chats[id]]

\* chats.forEach of lines 131-136: insert the chats whose id the store lacks.
InsertAbsent(chats, fetched) ==
  [id \in DOMAIN chats \cup DOMAIN fetched |->
     IF id \in DOMAIN chats THEN chats[id] ELSE fetched[id]]

\* chat.id.endsWith('@g.us')
EndsWithGUs(id) == id.server = "g.us"

\* ------------------------------------------------- connection.update events

Listening(id) ==
  /\ MapHas(sockets, id)
  /\ sockets[id].listening

\* An update carrying a QR code.
Qr(id) ==
  /\ Listening(id) /\ sockets[id].connection = "connecting"
  /\ emitted' = << Emit(sockets[id].client, "qr", "code") >>
  /\ lastEvent' = Event("qr", sockets[id].client, sockets[id].userId, id, "")
  /\ UNCHANGED << clients, activeSockets, userStores, flushTimers, authDir,
                  storeFile, baileysInstance, handlers, tasks, sockets,
                  fetching, nextId >>

\* connection === 'open', up to the await of groupFetchAllParticipating.
Open(id) ==
  /\ Listening(id) /\ sockets[id].connection = "connecting"
  /\ sockets' = [sockets EXCEPT ![id].connection = "open"]
  /\ emitted' = << Emit(sockets[id].client, "status", "connected") >>
  /\ LET r == createUserStore(sockets[id].userId) IN
       /\ userStores' = r.stores
       /\ flushTimers' = r.timers
  /\ fetching' = fetching \cup {id}
  /\ lastEvent' = Event("open", sockets[id].client, sockets[id].userId, id, "")
  /\ UNCHANGED << clients, activeSockets, authDir, storeFile, baileysInstance,
                  handlers, tasks, nextId >>

\* groupFetchAllParticipating resolves (the socket is still open): lines
\* 121-137.
Fetched(id, groups) ==
  /\ id \in fetching /\ sockets[id].connection = "open"
  /\ fetching' = fetching \ {id}
  /\ userStores' = [userStores EXCEPT ![sockets[id].userId] =
                      InsertAbsent(@, groups)]
  /\ emitted' = << >>
  /\ lastEvent' = Event("fetched", sockets[id].client, sockets[id].userId, id, "")
  /\ UNCHANGED << clients, activeSockets, flushTimers, authDir, storeFile,
                  baileysInstance, handlers, tasks, sockets, nextId >>

\* groupFetchAllParticipating rejects (timeout, connection closed): the
\* async listener's promise rejects and nobody handles it.
FetchFail(id) ==
  /\ id \in fetching
  /\ fetching' = fetching \ {id}
  /\ emitted' = << >>
  /\ lastEvent' = Thrown("fetchFail", sockets[id].client, sockets[id].userId, id, "")
  /\ UNCHANGED << clients, activeSockets, userStores, flushTimers, authDir,
                  storeFile, baileysInstance, handlers, tasks, sockets, nextId >>

\* The check of line 95 left out.
ReconnectAbortedNever(userId) == FALSE

\* The comparison of line 100 inverted.
shouldReconnectInverted(statusCode) == statusCode = "loggedOut"

\* !activeSockets.has(userId) (line 95): nobody owns the user any more.
ReconnectAborted(userId) == ~MapHas(activeSockets, userId)

\* statusCode !== DisconnectReason.loggedOut (line 100)
shouldReconnect(statusCode) == statusCode # "loggedOut"

\* connection === 'close' with the given status code (lines 90-114).  The
\* reconnect is the call of connectWhatsApp up to its first await.
Close(id, statusCode) ==
  /\ Listening(id) /\ sockets[id].connection # "close"
  /\ sockets' = [sockets EXCEPT ![id].connection = "close"]
  /\ LET userId == sockets[id].userId
         c == sockets[id].client
     IN
     IF ReconnectAborted(userId)
       THEN /\ emitted' = << >>
            /\ lastEvent' = Event("close", c, userId, id, statusCode)
            /\ UNCHANGED << activeSockets, authDir, tasks, nextId >>
     ELSE IF shouldReconnect(statusCode)
       THEN /\ nextId <= MaxAttempts
            /\ tasks' = tasks \cup {Task(nextId, "reconnect", c, userId, "creds")}
            /\ nextId' = nextId + 1
            /\ emitted' = << >>
            /\ lastEvent' = Event("close", c, userId, id, statusCode)
            /\ UNCHANGED << activeSockets, authDir >>
     ELSE IF authDir[userId]
       THEN /\ authDir' = [authDir EXCEPT ![userId] = FALSE]
            /\ activeSockets' = MapDelete(activeSockets, userId)
            /\ emitted' = << Emit(c, "status", "disconnected") >>
            /\ lastEvent' = Event("close", c, userId, id, statusCode)
            /\ UNCHANGED << tasks, nextId >>
     ELSE /\ emitted' = << >>
          /\ lastEvent' = Event("close", c, userId, id, statusCode)
          /\ UNCHANGED << activeSockets, authDir, tasks, nextId >>
  /\ UNCHANGED << clients, userStores, flushTimers, storeFile, baileysInstance,
                  handlers, fetching >>

\* A messages.upsert event: each listener of line 178 emits 'message'.
Upsert(id) ==
  /\ MapHas(sockets, id) /\ sockets[id].connection = "open"
  /\ emitted' = [k \in 1..sockets[id].upsertListeners |->
                   Emit(sockets[id].client, "message", "m")]
  /\ lastEvent' = Event("upsert", sockets[id].client, sockets[id].userId, id, "")
  /\ UNCHANGED << clients, activeSockets, userStores, flushTimers, authDir,
                  storeFile, baileysInstance, handlers, tasks, sockets,
                  fetching, nextId >>

\* ------------------------------------------------------ client events

\* DisconnectHandler without the comparison of the stored clientId.
DisconnectHandlerAnyOwner(c, userId, st) ==
  IF MapHas(st.active, userId)
    THEN [active |-> MapDelete(st.active, userId), socks |-> st.socks]
    ELSE st

\* One disconnect handler (lines 183-199), registered by an auth for userId,
\* run on the state st = [active, socks].
DisconnectHandler(c, userId, st) ==
  IF MapHas(st.active, userId) /\ st.active[userId].clientId = c
    THEN [active |-> MapDelete(st.active, userId),
          socks |->
            IF baileysInstance[c] # NoSocket
              THEN [st.socks EXCEPT ! [baileysInstance[c]] =
                      [@ EXCEPT !.listening = FALSE,
                                !.upsertListeners = 0,
                                !.connection = "close"]]
              ELSE st.socks]
    ELSE st

\* The disconnect handlers of client c in registration order.
RECURSIVE RunDisconnectHandlers(_, _, _)
RunDisconnectHandlers(c, hs, st) ==
  IF hs = << >> THEN st
  ELSE RunDisconnectHandlers(c, Tail(hs), DisconnectHandler(c, Head(hs), st))

\* The transport socket of client c disconnects.
Disconnect(c) ==
  /\ clients[c] = "connected"
  /\ clients' = [clients EXCEPT ![c] = "disconnected"]
  /\ LET st == RunDisconnectHandlers(c, handlers[c],
                                     [active |-> activeSockets, socks |-> sockets])
     IN /\ activeSockets' = st.active
        /\ sockets' = st.socks
  /\ emitted' = << >>
  /\ lastEvent' = Event("disconnect", c, "", baileysInstance[c], "")
  /\ UNCHANGED << userStores, flushTimers, authDir, storeFile, baileysInstance,
                  handlers, tasks, fetching, nextId >>

\* client.on('sendMessage'): sent says whether baileysInstance.sendMessage
\* resolves; on a closed socket it always rejects.  lastEvent.id is the
\* socket sendMessage was called on.
SendMessage(c, sent) ==
  /\ clients[c] = "connected"
  /\ IF baileysInstance[c] = NoSocket
       THEN /\ emitted' = << Emit(c, "error", "Voce nao esta conectado.") >>
            /\ lastEvent' = Event("sendMessage", c, "", NoSocket, "notConnected")
     ELSE IF sent /\ sockets[baileysInstance[c]].connection # "close"
       THEN /\ emitted' = << Emit(c, "messageStatus", "sent") >>
            /\ lastEvent' = Event("sendMessage", c, "", baileysInstance[c], "sent")
     ELSE /\ emitted' = << Emit(c, "error", "Erro ao enviar mensagem.") >>
          /\ lastEvent' = Event("sendMessage", c, "", baileysInstance[c], "failed")
  /\ UNCHANGED << clients, activeSockets, userStores, flushTimers, authDir,
                  storeFile, baileysInstance, handlers, tasks, sockets,
                  fetching, nextId >>

\* getUserStore(userId).chats.all().filter(...)
GroupsOf(chats) ==
  [id \in {x \in DOMAIN chats : EndsWithGUs(x)} |-> chats[id]]

\* The listGroups handlers of client c in registration order: each emits the
\* groups of its userId, or logs the TypeError when the user has no store.
RECURSIVE RunListGroupsHandlers(_, _)
RunListGroupsHandlers(c, hs) ==
  IF hs = << >> THEN << >>
  ELSE (IF MapHas(userStores, Head(hs))
          THEN << EmitGroups(c, GroupsOf(userStores[Head(hs)])) >>
          ELSE << >>)
       \o RunListGroupsHandlers(c, Tail(hs))

ListGroups(c) ==
  /\ clients[c] = "connected"
  /\ emitted' = RunListGroupsHandlers(c, handlers[c])
  /\ lastEvent' = Event("listGroups", c, "", NoSocket, "")
  /\ UNCHANGED << clients, activeSockets, userStores, flushTimers, authDir,
                  storeFile, baileysInstance, handlers, tasks, sockets,
                  fetching, nextId >>

\* The events that drive the sessions and the registry: transport clients
\* cs connecting, authenticating with the userIds us and disconnecting,
\* connectWhatsApp's promises settling, sockets opening and closing.
SessionEvents(cs, us) ==
  \/ \E c \in cs : Connection(c)
  \/ \E c \in cs, userId \in us \cup {NoUserId} : Auth(c, userId)
  \/ \E c \in cs : Disconnect(c)
  \/ \E id \in SocketIds : ConnectCreds(id)
  \/ \E id \in SocketIds : ConnectSocket(id)
  \/ \E id \in SocketIds : ConnectFail(id)
  \/ \E id \in SocketIds : Open(id)
  \/ \E id \in SocketIds, statusCode \in StatusCodes : Close(id, statusCode)

\* The events that relay data and change neither a session nor the
\* registry (RelayFrame below).
RelayEvents(cs) ==
  \/ \E c \in cs, sent \in BOOLEAN : SendMessage(c, sent)
  \/ \E c \in cs : ListGroups(c)
  \/ \E id \in SocketIds : Qr(id)
  \/ \E id \in SocketIds : Upsert(id)

\* The end of a group fetch, with any of the fetch results.
GroupSync ==
  \E id \in SocketIds, groups \in FetchResults : Fetched(id, groups)

\* The events that write a user store or its snapshot file: the end of
\* the group fetch of an opened socket and the flush timers.
StoreEvents(us) ==
  \/ GroupSync
  \/ \E id \in SocketIds : FetchFail(id)
  \/ \E userId \in us : Flush(userId)

Next ==
  SessionEvents(Clients, Users) \/ RelayEvents(Clients) \/ StoreEvents(Users)

Spec == Init /\ [][Next]_vars

\* A server started without snapshot files of an earlier run.
InitFresh == Init /\ storeFile = EmptyMap

\* The sessions and the registry alone, which the relay events neither
\* change nor enable.
SpecSession ==
  InitFresh /\ [][SessionEvents(Clients, Users)]_vars

\* Two clients and one userId: every race for one user's registry entry.
SpecOneUser ==
  InitFresh /\ [][SessionEvents(Clients, {"u1"})]_vars

\* One client and two userIds.
SpecOneClient ==
  InitFresh /\ [][SessionEvents({"c1"}, Users)]_vars

\* One client and one userId with every event of the server, started with
\* or without a snapshot file.
NextOneSession ==
  SessionEvents({"c1"}, {"u1"}) \/ RelayEvents({"c1"}) \/ StoreEvents({"u1"})

SpecOneSession == Init /\ [][NextOneSession]_vars

\* One client and one userId, the session events and the store events.
SpecStore ==
  Init /\ [][SessionEvents({"c1"}, {"u1"}) \/ StoreEvents({"u1"})]_vars

\* One client that authenticates as either userId, the session events and
\* the group syncs.
SpecTwoUsers ==
  InitFresh /\ [][SessionEvents({"c1"}, Users) \/ GroupSync]_vars

\* ------------------------------------------------------------ properties

\* The relay events leave the sessions and the registry alone, so the
\* behaviours of SpecSession, SpecOneUser and SpecOneClient are those of the
\* full server seen through these variables.
sessionVars == << clients, activeSockets, authDir, baileysInstance, handlers,
                 tasks, nextId >>
RelayFrame ==
  [][lastEvent'.op \in {"sendMessage", "listGroups", "qr", "fetched",
                        "fetchFail", "upsert", "flush"}
       => /\ UNCHANGED sessionVars
          /\ \A id \in DOMAIN sockets :
               /\ sockets'[id].connection = sockets[id].connection
               /\ sockets'[id].listening = sockets[id].listening]_vars

\* The step just taken completed an auth request that made a socket.
AuthCreated == lastEvent.op = "socket" /\ lastEvent.arg = "auth"

\* C1: of the authenticate(u) requests of different clients, also ones that
\* overlap, one creates the session and the registry entry of u and every
\* other one is answered already_connected: no request creates a session for
\* u while the registry holds an entry for u that another client owns.
C1_OneAuthCreates ==
  [][AuthCreated'
       => (MapHas(activeSockets, lastEvent'.userId)
             => activeSockets[lastEvent'.userId].clientId = lastEvent'.client)]_vars

\* A socket is live until its connection is closed.
Live(id) == MapHas(sockets, id) /\ sockets[id].connection # "close"

\* C2: at no time are two protocol sockets of the same user live.
C2_OneLiveInstancePerUser ==
  \A i, j \in DOMAIN sockets :
    (Live(i) /\ Live(j) /\ sockets[i].userId = sockets[j].userId) => i = j

\* C3: the disconnect of client c removes no registry entry whose stored
\* clientId is another client's: such an entry is there afterwards, as it
\* was.
C3_StaleTeardownGuard ==
  [][lastEvent'.op = "disconnect"
       => \A u \in DOMAIN activeSockets :
            activeSockets[u].clientId # lastEvent'.client
              => (MapHas(activeSockets', u)
                  /\ activeSockets'[u] = activeSockets[u])]_vars

\* Client A, which registered a disconnect handler for u when it
\* authenticated as u, has disconnected while client B owns u's entry, and
\* the entry is still there.
C3_Witness ==
  /\ lastEvent.op = "disconnect"
  /\ \E u \in Users :
       /\ \E k \in 1..Len(handlers[lastEvent.client]) :
            handlers[lastEvent.client][k] = u
       /\ MapHas(activeSockets, u)
       /\ activeSockets[u].clientId # lastEvent.client

\* The step just taken ran the close handler of a socket of user u.
Closed(u) == lastEvent.op = "close" /\ lastEvent.userId = u

\* C4: a close event with the logged-out reason, processed while the
\* registry holds u's entry, removes the entry, leaves u without credential
\* folder, emits status 'disconnected' exactly once and starts no connection
\* attempt.
C4_Logout ==
  [][\A u \in Users :
       (Closed(u)' /\ lastEvent'.arg = "loggedOut" /\ MapHas(activeSockets, u))
         => /\ ~MapHas(activeSockets', u)
            /\ ~authDir'[u]
            /\ emitted' = << Emit(lastEvent'.client, "status", "disconnected") >>
            /\ tasks' = tasks /\ nextId' = nextId]_vars

C6_ReconnectSuppressed ==
  [][\A u \in Users :
       (Closed(u)' /\ ~MapHas(activeSockets, u))
         => /\ tasks' = tasks /\ nextId' = nextId
            /\ DOMAIN sockets' = DOMAIN sockets
            /\ authDir' = authDir
            /\ activeSockets' = activeSockets
            /\ emitted' = << >>]_vars

\* A socket of u has just closed with the logged-out reason while nobody
\* owned u: the credential folder is still there, no entry, no attempt.
C6_Witness ==
  \E u \in Users :
    /\ Closed(u) /\ lastEvent.arg = "loggedOut"
    /\ ~MapHas(activeSockets, u)
    /\ authDir[u]
    /\ emitted = << >>

\* The sockets that client c's closure made for user u.
SessionSockets(c, u) ==
  {id \in DOMAIN sockets : sockets[id].client = c /\ sockets[id].userId = u}

\* No two requests for the same user overlapped: each user has at most one
\* socket made by an auth request.
NoOverlappingAuth ==
  \A i, j \in DOMAIN sockets :
    (sockets[i].kind = "auth" /\ sockets[j].kind = "auth"
       /\ sockets[i].userId = sockets[j].userId) => i = j

\* C7: when the client that owns u's entry disconnects, the entry is
\* removed and afterwards no socket of that session is live with its
\* listeners attached, also after reconnects (stated for the runs in which
\* no two authenticate requests of a user overlapped).
C7_TeardownOnOwnerDisconnect ==
  [][(lastEvent'.op = "disconnect" /\ NoOverlappingAuth)
       => \A u \in DOMAIN activeSockets :
            activeSockets[u].clientId = lastEvent'.client
              => /\ ~MapHas(activeSockets', u)
                 /\ \A id \in SessionSockets(lastEvent'.client, u) :
                      ~(sockets'[id].listening
                        /\ sockets'[id].connection # "close")]_vars

\* C8: once a client has disconnected and its authenticate handlers have
\* completed, no registry entry names it.
C8_NoEntryOfDisconnectedClient ==
  \A c \in Clients :
    (clients[c] = "disconnected"
       /\ ~\E t \in tasks : t.client = c /\ t.kind = "auth")
      => \A u \in DOMAIN activeSockets : activeSockets[u].clientId # c

\* C9: a client owns at most one registry entry.
C9_OneEntryPerClient ==
  \A u, v \in DOMAIN activeSockets :
    activeSockets[u].clientId = activeSockets[v].clientId => u = v

\* C10: an auth request without userId emits one error to the requesting
\* client and changes nothing: no entry, no connection attempt, no socket,
\* the registry and the stores as they were.
C10_MissingUserId ==
  [][(lastEvent'.op = "auth" /\ lastEvent'.userId = NoUserId)
       => /\ Len(emitted') = 1
          /\ emitted'[1].to = lastEvent'.client
          /\ emitted'[1].event = "error"
          /\ UNCHANGED << clients, activeSockets, userStores, flushTimers,
                          authDir, storeFile, baileysInstance, handlers,
                          tasks, sockets, fetching, nextId >>]_vars

\* An auth request without userId has just been answered with an error
\* while a session and a store exist.
C10_Witness ==
  /\ lastEvent.op = "auth" /\ lastEvent.userId = NoUserId
  /\ emitted = << Emit(lastEvent.client, "error", "UserId nao fornecido.") >>
  /\ DOMAIN activeSockets # {}
  /\ DOMAIN userStores # {}
\* C11: when the connection attempt of an authentication fails, the
\* requesting client is sent one error notification, the registry is left
\* as it was (no entry is created) and no further connection attempt,
\* socket or task is started.
C11_AuthFailure ==
  [][(lastEvent'.op = "connectFail" /\ lastEvent'.arg = "auth")
       => /\ emitted' = << [to |-> lastEvent'.client, event |-> "error",
                            arg |-> "Erro ao conectar ao WhatsApp.",
                            groups |-> EmptyMap] >>
          /\ activeSockets' = activeSockets
          /\ tasks' \subseteq tasks
          /\ nextId' = nextId
          /\ DOMAIN sockets' = DOMAIN sockets]_vars

C11_Witness ==
  /\ lastEvent.op = "connectFail" /\ lastEvent.arg = "auth"
  /\ Len(emitted) = 1 /\ emitted[1].event = "error"
  /\ emitted[1].to = lastEvent.client
  /\ ~MapHas(activeSockets, lastEvent.userId)
  /\ tasks = {}

\* C12: no handler run ends in an uncaught exception or an unhandled
\* rejection: each run finishes normally or with an error notification.
C12_NoUncaught == lastEvent.uncaught = FALSE

\* Client c owns a registry entry: it has an active session.
HasSession(c) ==
  \E u \in DOMAIN activeSockets : activeSockets[u].clientId = c

\* C13: a sendMessage of a client without an active session is answered
\* with one error notification and calls sendMessage on no socket; hence
\* only a client with an active session is forwarded and acknowledged.
C13_SendRequiresSession ==
  [][(lastEvent'.op = "sendMessage" /\ ~HasSession(lastEvent'.client))
       => /\ lastEvent'.id = NoSocket
          /\ Len(emitted') = 1
          /\ emitted'[1].event = "error"
          /\ emitted'[1].to = lastEvent'.client]_vars

\* C14: a step notifies the status 'connected' only when the store of the
\* user exists and the group fetch of that socket has been merged into it.
C14_ConnectedAfterSync ==
  \A k \in 1..Len(emitted) :
    (emitted[k].event = "status" /\ emitted[k].arg = "connected")
      => /\ MapHas(userStores, lastEvent.userId)
         /\ lastEvent.id \notin fetching

\* C15: a listGroups of a client that authenticated as a user without a
\* store is answered with an error notification to that client.
C15_ListGroupsWithoutStore ==
  [][(/\ lastEvent'.op = "listGroups"
      /\ \E k \in 1..Len(handlers[lastEvent'.client]) :
           ~MapHas(userStores, handlers[lastEvent'.client][k]))
       => \E j \in 1..Len(emitted') :
            /\ emitted'[j].event = "error"
            /\ emitted'[j].to = lastEvent'.client]_vars

\* C16: the group sync at the end of a fetch is insert-if-absent and
\* idempotent: for the fetched groups g the store afterwards holds exactly
\* the ids it held and the ids of g, every chat it held is unchanged, every
\* id it lacked carries the fetched chat, and the same sync run again on
\* the result changes nothing.
C16_SyncInsertIfAbsent ==
  [][lastEvent'.op = "fetched"
       => LET u == lastEvent'.userId
              old == userStores[u]
              new == userStores'[u]
          IN \E g \in FetchResults :
               /\ DOMAIN new = DOMAIN old \cup DOMAIN g
               /\ \A id \in DOMAIN old : new[id] = old[id]
               /\ \A id \in DOMAIN g \ DOMAIN old : new[id] = g[id]
               /\ InsertAbsent(new, g) = new]_vars

\* A sync has run on a store that already held Group1 under another name
\* and lacked Group2: Group1 kept its name and Group2 was added.
C16_Witness ==
  /\ lastEvent.op = "fetched"
  /\ MapHas(userStores, lastEvent.userId)
  /\ {Group1, Group2} \subseteq DOMAIN userStores[lastEvent.userId]
  /\ userStores[lastEvent.userId][Group1] # "b"
  /\ userStores[lastEvent.userId][Group2] = "b"

\* C17: store acquisition is idempotent: a user has a flush timer exactly
\* when it has a store and never more than one; a store that exists is never
\* removed, its timer count never changes, and an open that acquires it again
\* leaves its content as it was (it is not read from the file again).
C17_OneStorePerUser ==
  [][\A u \in Users :
       /\ flushTimers'[u] = IF MapHas(userStores', u) THEN 1 ELSE 0
       /\ MapHas(userStores, u)
            => /\ MapHas(userStores', u)
               /\ flushTimers'[u] = flushTimers[u]
               /\ lastEvent'.op = "open" => userStores'[u] = userStores[u]]_vars

\* An open has acquired a store whose content differs from the snapshot
\* file: the store was created by an earlier open and synced since.
C17_Witness ==
  /\ lastEvent.op = "open"
  /\ MapHas(userStores, lastEvent.userId)
  /\ userStores[lastEvent.userId] #
       (IF MapHas(storeFile, lastEvent.userId)
          THEN storeFile[lastEvent.userId] ELSE EmptyMap)
  /\ flushTimers[lastEvent.userId] = 1

C19_ReconnectReplacesInstance ==
  [][(/\ lastEvent'.op = "socket" /\ lastEvent'.arg = "reconnect"
      /\ MapHas(activeSockets', lastEvent'.userId))
       => LET e == activeSockets'[lastEvent'.userId]
          IN /\ e.baileysInstance = lastEvent'.id
             /\ baileysInstance'[e.clientId] = lastEvent'.id]_vars

\* C20: a messages.upsert of a socket made by a reconnect, received while the
\* entry of the user exists and is owned by the socket's client, is relayed
\* to that client as exactly one message notification.
C20_UpsertRelayedOnce ==
  [][(/\ lastEvent'.op = "upsert"
      /\ sockets[lastEvent'.id].kind = "reconnect"
      /\ MapHas(activeSockets, lastEvent'.userId)
      /\ activeSockets[lastEvent'.userId].clientId = lastEvent'.client)
       => /\ Len(emitted') = 1
          /\ emitted'[1].event = "message"
          /\ emitted'[1].to = lastEvent'.client]_vars

====
